---- MODULE Spec2Model ----
(***************************************************************************)
(* Model of crawlSite (src/crawler.mjs, lines 1-52) as it runs inside the  *)
(* Node.js process of the audit server.                                    *)
(*                                                                         *)
(* `visited' and `queue' are module-level collections (lines 5-6), so all  *)
(* invocations of crawlSite in one process share them.  An invocation runs *)
(* synchronously from its call (or from the resumption of its await) to    *)
(* the next `await axios.get' (line 20) or to its return (line 51); other  *)
(* invocations run only while it is suspended at line 20.  `running' holds *)
(* the invocation that currently owns the JavaScript thread.               *)
(*                                                                         *)
(* URL strings are records [k, h, p]:                                      *)
(*   k = "abs"    an absolute URL  https://<h><p>                          *)
(*   k = "root"   a root-relative href  <p>  (begins with "/")             *)
(*   k = "rel"    a relative href such as about.html: `new URL(href)'      *)
(*                throws on it                                             *)
(*   k = "frag", "mailto", "tel", "empty"   hrefs dropped by line 35       *)
(***************************************************************************)
EXTENDS Integers, Sequences, FiniteSets, TLC

\* ------------------------------------------------------------------ bounds
MaxCalls == 2          \* crawlSite invocations in one process
MaxDepthArg == 1       \* maxDepth arguments are 0 and MaxDepthArg

Calls == 1..MaxCalls
NoCall == 0

\* --------------------------------------------------------------- URL strings
Url(h, p) == [k |-> "abs", h |-> h, p |-> p]
Href(k, p) == [k |-> k, h |-> "", p |-> p]

UrlA  == Url("a.test", "/")
UrlAx == Url("a.test", "/x")
UrlAy == Url("a.test", "/y")
UrlUx == Url("A.test", "/x")     \* same page as UrlAx, other spelling
UrlB  == Url("b.test", "/")
BadUrl == Href("rel", "about.html")
NoUrl == Href("empty", "")

\* new URL(u) succeeds
Parseable(u) == u.k = "abs"

\* the WHATWG parser lower-cases the host
Lower(h) == IF h = "A.test" THEN "a.test" ELSE h

\* new URL(u).hostname, for a parseable u
Hostname(u) == Lower(u.h)

\* new URL(href, startUrl).href for a root-relative href
Resolve(href, base) == Url(Lower(base.h), href.p)

\* ---------------------------------------------------------------- the site
\* A page is addressed by (lower-case host, path); servers do not
\* distinguish host spellings.
PageKey(u) == [h |-> Lower(u.h), p |-> u.p]

\* The pages that exist; a GET of any other URL fails without a response.
Pages == {PageKey(UrlA), PageKey(UrlAx), PageKey(UrlB)}

OkPage(hrefs) == [kind |-> "ok", status |-> "200", hrefs |-> hrefs]
HttpError(code) == [kind |-> "http", status |-> code, hrefs |-> <<>>]
NetError == [kind |-> "net", status |-> "", hrefs |-> <<>>]

HrefLists ==
  { << Href("root", "/x"), Href("root", "/y"), Href("root", "/x") >>,
    << Href("root", "/y"), UrlB, Href("frag", "#top"), UrlUx, Href("root", "/") >>,
    << Href("root", "/x"), BadUrl, Href("root", "/y") >> }

\* what an existing page answers; transport failures come from the URLs
\* that lead to no page
Outcomes == {OkPage(l) : l \in HrefLists} \cup {HttpError("404")}

Sites == [Pages -> Outcomes]

StartUrls == {UrlA, UrlB, BadUrl}
DepthArgs == {0, MaxDepthArg}

VARIABLES
  visited,    \* line 5: the process-wide Set of URL strings
  queue,      \* line 6: the process-wide frontier, a sequence of [url, depth]
  pc,         \* per invocation: "idle", "loop", "fetching", "done", "failed"
  startUrl,   \* per invocation: parameter startUrl
  maxDepth,   \* per invocation: parameter maxDepth
  baseDomain, \* per invocation: line 12
  report,     \* per invocation: line 10
  cur,        \* per invocation: the { url, depth } of line 15 while fetching
  running,    \* the invocation executing synchronously, or NoCall
  site,       \* the web site: what axios.get answers for each page
  fetchLog,   \* history: every axios.get started, as [call, url, depth]
  skipLog,    \* history: every item discarded at line 16, as [call, url, depth]
  overlap     \* history: the invocation was in progress together with another

vars == <<visited, queue, pc, startUrl, maxDepth, baseDomain, report, cur,
          running, site, fetchLog, skipLog, overlap>>

NoItem == [url |-> NoUrl, depth |-> 0]

Init ==
  /\ visited = {}
  /\ queue = <<>>
  /\ pc = [i \in Calls |-> "idle"]
  /\ startUrl = [i \in Calls |-> NoUrl]
  /\ maxDepth = [i \in Calls |-> 0]
  /\ baseDomain = [i \in Calls |-> ""]
  /\ report = [i \in Calls |-> <<>>]
  /\ cur = [i \in Calls |-> NoItem]
  /\ running = NoCall
  /\ site \in Sites
  /\ fetchLog = <<>>
  /\ skipLog = {}
  /\ overlap = [i \in Calls |-> FALSE]

\* ------------------------------------------------------------- crawlSite
\* lines 8-12: the call up to the loop.  queue.push comes before new URL,
\* so an unparseable startUrl leaves its seed on the shared queue and the
\* call rejects.
Call(i, s, D) ==
  /\ running = NoCall
  /\ pc[i] = "idle"
  /\ \A j \in Calls : j < i => pc[j] # "idle"
  /\ queue' = Append(queue, [url |-> s, depth |-> 0])
  /\ report' = [report EXCEPT ![i] = <<>>]
  /\ startUrl' = [startUrl EXCEPT ![i] = s]
  /\ maxDepth' = [maxDepth EXCEPT ![i] = D]
  /\ IF Parseable(s)
       THEN /\ baseDomain' = [baseDomain EXCEPT ![i] = Hostname(s)]
            /\ pc' = [pc EXCEPT ![i] = "loop"]
            /\ running' = i
            /\ overlap' = [j \in Calls |->
                  IF \E k \in Calls : pc[k] = "fetching"
                    THEN overlap[j] \/ j = i \/ pc[j] = "fetching"
                    ELSE overlap[j]]
       ELSE /\ baseDomain' = baseDomain
            /\ pc' = [pc EXCEPT ![i] = "failed"]
            /\ running' = NoCall
            /\ overlap' = overlap
  /\ UNCHANGED <<visited, cur, site, fetchLog, skipLog>>

\* line 16 without the visited test
ShouldSkipNoDedup(v, item, D) == item.depth > D

\* line 16: the condition of `continue'
ShouldSkip(v, item, D) == item.url \in v \/ item.depth > D

\* lines 14-16 reading queue[0] without removing it before `continue'
SkipNoShift(i) ==
  /\ running = i
  /\ pc[i] = "loop"
  /\ queue # <<>>
  /\ ShouldSkip(visited, Head(queue), maxDepth[i])
  /\ skipLog' = skipLog \cup {[call |-> i, url |-> Head(queue).url,
                                depth |-> Head(queue).depth]}
  /\ UNCHANGED <<visited, queue, pc, startUrl, maxDepth, baseDomain, report,
                 cur, running, site, fetchLog, overlap>>

\* lines 14-18 with visited.add(url) ahead of the test of line 16
SkipMarking(i) ==
  /\ running = i
  /\ pc[i] = "loop"
  /\ queue # <<>>
  /\ ShouldSkip(visited, Head(queue), maxDepth[i])
  /\ queue' = Tail(queue)
  /\ visited' = visited \cup {Head(queue).url}
  /\ skipLog' = skipLog \cup {[call |-> i, url |-> Head(queue).url,
                                depth |-> Head(queue).depth]}
  /\ UNCHANGED <<pc, startUrl, maxDepth, baseDomain, report, cur, running,
                 site, fetchLog, overlap>>

\* lines 14-16: dequeue an item and discard it
Skip(i) ==
  /\ running = i
  /\ pc[i] = "loop"
  /\ queue # <<>>
  /\ ShouldSkip(visited, Head(queue), maxDepth[i])
  /\ queue' = Tail(queue)
  /\ skipLog' = skipLog \cup {[call |-> i, url |-> Head(queue).url,
                                depth |-> Head(queue).depth]}
  /\ UNCHANGED <<visited, pc, startUrl, maxDepth, baseDomain, report, cur,
                 running, site, fetchLog, overlap>>

\* lines 14-20 with visited.add(url) moved behind the await
StartFetchNoMark(i) ==
  /\ running = i
  /\ pc[i] = "loop"
  /\ queue # <<>>
  /\ ~ShouldSkip(visited, Head(queue), maxDepth[i])
  /\ queue' = Tail(queue)
  /\ cur' = [cur EXCEPT ![i] = Head(queue)]
  /\ fetchLog' = Append(fetchLog, [call |-> i, url |-> Head(queue).url,
                                   depth |-> Head(queue).depth])
  /\ pc' = [pc EXCEPT ![i] = "fetching"]
  /\ running' = NoCall
  /\ UNCHANGED <<visited, startUrl, maxDepth, baseDomain, report, site,
                 skipLog, overlap>>

\* lines 14-20: dequeue an item, mark it visited, start the GET and suspend
StartFetch(i) ==
  /\ running = i
  /\ pc[i] = "loop"
  /\ queue # <<>>
  /\ ~ShouldSkip(visited, Head(queue), maxDepth[i])
  /\ queue' = Tail(queue)
  /\ visited' = visited \cup {Head(queue).url}
  /\ cur' = [cur EXCEPT ![i] = Head(queue)]
  /\ fetchLog' = Append(fetchLog, [call |-> i, url |-> Head(queue).url,
                                   depth |-> Head(queue).depth])
  /\ pc' = [pc EXCEPT ![i] = "fetching"]
  /\ running' = NoCall
  /\ UNCHANGED <<startUrl, maxDepth, baseDomain, report, site, skipLog,
                 overlap>>

\* lines 14, 51: the frontier is empty, return report
Return(i) ==
  /\ running = i
  /\ pc[i] = "loop"
  /\ queue = <<>>
  /\ pc' = [pc EXCEPT ![i] = "done"]
  /\ running' = NoCall
  /\ UNCHANGED <<visited, queue, startUrl, maxDepth, baseDomain, report, cur,
                 site, fetchLog, skipLog, overlap>>

\* line 20: what axios.get(url) settles with.  A 2xx answer resolves, any
\* other answer rejects with err.response set, a transport failure (or a
\* string that is no URL) rejects without err.response.
Response(st, u) ==
  IF Parseable(u) /\ PageKey(u) \in DOMAIN st THEN st[PageKey(u)] ELSE NetError

\* lines 21-28: the signals cheerio extracts from the body
Signals(res) ==
  [title |-> "Home", description |-> "", h1 |-> 1, h2 |-> 0,
   canonical |-> "", noindex |-> FALSE]

\* line 30: the record of a fetched page
SuccessRecord(item, res) ==
  [url |-> item.url, status |-> res.status,
   title |-> Signals(res).title, description |-> Signals(res).description,
   h1 |-> Signals(res).h1, h2 |-> Signals(res).h2,
   canonical |-> Signals(res).canonical, noindex |-> Signals(res).noindex,
   depth |-> item.depth]

\* line 47 with the marker for every failure
ErrStatusMarkerOnly(err) == "Erro"

\* line 47: err.response?.status || 'Erro'
ErrStatus(err) == IF err.kind = "http" THEN err.status ELSE "Erro"

\* line 47: the record pushed by the catch block
FailureRecord(item, err) ==
  [url |-> item.url, status |-> ErrStatus(err), depth |-> item.depth]

\* a TypeError (ERR_INVALID_URL) thrown by new URL: it has no .response
InvalidUrlError == [kind |-> "type", status |-> "", hrefs |-> <<>>]

\* line 35: hrefs kept by the first filter
KeepHref(h) == h.k \notin {"empty", "frag", "mailto", "tel"}

\* lines 36-38: root-relative hrefs are resolved against startUrl, every
\* other href passes through as written
ResolveHref(h, s) == IF h.k = "root" THEN Resolve(h, s) ELSE h

\* lines 32-38: the hrefs of the page after the first filter and the map
Resolved(hrefs, s) ==
  LET kept == SelectSeq(hrefs, KeepHref)
  IN  [k \in 1..Len(kept) |-> ResolveHref(kept[k], s)]

\* line 39: new URL(href) throws for some element of the array
LinkThrows(hrefs, s) ==
  \E k \in 1..Len(Resolved(hrefs, s)) : ~Parseable(Resolved(hrefs, s)[k])

\* line 39: the predicate of the second filter
InScope(h, base) == Hostname(h) = base

\* lines 32-39: const links, when no new URL throws
Links(hrefs, s, base) ==
  SelectSeq(Resolved(hrefs, s), LAMBDA h : InScope(h, base))

\* line 42: the test guarding queue.push
NotVisited(link, v) == link \notin v

\* lines 41-45: the frontier after the for loop
Enqueue(q, links, v, depth) ==
  LET new == SelectSeq(links, LAMBDA l : NotVisited(l, v))
  IN  q \o [k \in 1..Len(new) |-> [url |-> new[k], depth |-> depth + 1]]

\* lines 21-45 (and 46-48 when a link throws): axios.get resolved
FetchSuccess(i) ==
  /\ running = NoCall
  /\ pc[i] = "fetching"
  /\ LET res == Response(site, cur[i].url)
         rep == Append(report[i], SuccessRecord(cur[i], res))
     IN  /\ res.kind = "ok"
         /\ IF LinkThrows(res.hrefs, startUrl[i])
              THEN /\ report' = [report EXCEPT ![i] =
                          Append(rep, FailureRecord(cur[i], InvalidUrlError))]
                   /\ queue' = queue
              ELSE /\ report' = [report EXCEPT ![i] = rep]
                   /\ queue' = Enqueue(queue,
                          Links(res.hrefs, startUrl[i], baseDomain[i]),
                          visited, cur[i].depth)
  /\ cur' = [cur EXCEPT ![i] = NoItem]
  /\ pc' = [pc EXCEPT ![i] = "loop"]
  /\ running' = i
  /\ UNCHANGED <<visited, startUrl, maxDepth, baseDomain, site, fetchLog,
                 skipLog, overlap>>

\* lines 19-48 without the try/catch: the rejection of axios.get ends the
\* invocation
FetchFailureUncaught(i) ==
  /\ running = NoCall
  /\ pc[i] = "fetching"
  /\ Response(site, cur[i].url).kind # "ok"
  /\ cur' = [cur EXCEPT ![i] = NoItem]
  /\ pc' = [pc EXCEPT ![i] = "failed"]
  /\ UNCHANGED <<visited, queue, startUrl, maxDepth, baseDomain, report,
                 running, site, fetchLog, skipLog, overlap>>

\* lines 46-48 with report.unshift in place of report.push
FetchFailureUnshift(i) ==
  /\ running = NoCall
  /\ pc[i] = "fetching"
  /\ LET err == Response(site, cur[i].url)
     IN  /\ err.kind # "ok"
         /\ report' = [report EXCEPT ![i] =
                          <<FailureRecord(cur[i], err)>> \o report[i]]
  /\ cur' = [cur EXCEPT ![i] = NoItem]
  /\ pc' = [pc EXCEPT ![i] = "loop"]
  /\ running' = i
  /\ UNCHANGED <<visited, queue, startUrl, maxDepth, baseDomain, site,
                 fetchLog, skipLog, overlap>>

\* lines 46-48: axios.get rejected
FetchFailure(i) ==
  /\ running = NoCall
  /\ pc[i] = "fetching"
  /\ LET err == Response(site, cur[i].url)
     IN  /\ err.kind # "ok"
         /\ report' = [report EXCEPT ![i] =
                          Append(report[i], FailureRecord(cur[i], err))]
  /\ cur' = [cur EXCEPT ![i] = NoItem]
  /\ pc' = [pc EXCEPT ![i] = "loop"]
  /\ running' = i
  /\ UNCHANGED <<visited, queue, startUrl, maxDepth, baseDomain, site,
                 fetchLog, skipLog, overlap>>

Next ==
  \/ \E i \in Calls, s \in StartUrls, D \in DepthArgs : Call(i, s, D)
  \/ \E i \in Calls : Skip(i)
  \/ \E i \in Calls : StartFetch(i)
  \/ \E i \in Calls : Return(i)
  \/ \E i \in Calls : FetchSuccess(i)
  \/ \E i \in Calls : FetchFailure(i)

Spec == Init /\ [][Next]_vars

\* the steps of the invocations, as opposed to the calls of their callers
Step ==
  \E i \in Calls :
    Skip(i) \/ StartFetch(i) \/ Return(i) \/ FetchSuccess(i) \/ FetchFailure(i)

\* An invocation that owns the thread runs on to its next await or to its
\* return, and every GET that was started settles (line 20 sets a timeout):
\* while some invocation can take a step, one is eventually taken.  Nothing
\* obliges a caller to call crawlSite.
\* The fair behaviours are explored for the sites whose two hosts answer
\* alike at the root.
LiveSites == {st \in Sites : st[PageKey(UrlB)] = st[PageKey(UrlA)]}

LiveInit == Init /\ site \in LiveSites

FairSpec == LiveInit /\ [][Next]_vars /\ WF_vars(Step)

TypeOK ==
  /\ running \in Calls \cup {NoCall}
  /\ \A i \in Calls : pc[i] \in {"idle", "loop", "fetching", "done", "failed"}

\* ------------------------------------------------------------ properties
FetchesOf(i) == {k \in DOMAIN fetchLog : fetchLog[k].call = i}
RecordsOf(i, u) == {k \in DOMAIN report[i] : report[i][k].url = u}
InFlight(i) == IF pc[i] = "fetching" THEN 1 ELSE 0
Failed(u) == Response(site, u).kind # "ok"

\* C1: every item that passes line 16 yields exactly one record of its
\* invocation's report: the report is as long as the number of fetches the
\* invocation started, less the one still in flight, also when a link of the
\* fetched page is malformed.
C1_OneRecordPerItem ==
  \A i \in Calls :
    Len(report[i]) = Cardinality(FetchesOf(i)) - InFlight(i)

\* C2: no URL string appears in more than one record of a report.
C2_NoDuplicateUrl ==
  \A i \in Calls : \A j, k \in DOMAIN report[i] :
    j # k => report[i][j].url # report[i][k].url

\* C3: a URL string is fetched at most once; a fetch is started only for a
\* URL that is not in visited and puts it there, so no later dequeue of the
\* same string (duplicate frontier entry, rediscovery, failed fetch) starts
\* another one.
C3_FetchedAtMostOnce ==
  /\ [](/\ \A j, k \in DOMAIN fetchLog :
             j # k => fetchLog[j].url # fetchLog[k].url
        /\ \A k \in DOMAIN fetchLog : fetchLog[k].url \in visited)
  /\ [][fetchLog' # fetchLog =>
          /\ fetchLog' = Append(fetchLog, fetchLog'[Len(fetchLog')])
          /\ fetchLog'[Len(fetchLog')].url \notin visited
          /\ fetchLog'[Len(fetchLog')].url \in visited']_vars

\* a link whose fetch had failed was dequeued again within the depth bound
\* by the same invocation and discarded
C3_Witness ==
  \E e \in skipLog :
    /\ e.depth > 0
    /\ e.depth <= maxDepth[e.call]
    /\ Failed(e.url)
    /\ \E k \in FetchesOf(e.call) : fetchLog[k].url = e.url
    /\ RecordsOf(e.call, e.url) # {}

\* the URL strings the links of page u lead to, resolved as crawlSite
\* resolves them for seed s (lines 32-38)
LinkTargets(st, s, u) ==
  IF Response(st, u).kind = "ok"
    THEN {Resolved(Response(st, u).hrefs, s)[k] :
            k \in 1..Len(Resolved(Response(st, u).hrefs, s))}
    ELSE {}

\* the URL strings at link distance <= d from seed s
RECURSIVE Within(_, _, _)
Within(st, s, d) ==
  IF d = 0 THEN {s}
  ELSE LET w == Within(st, s, d - 1)
       IN  w \cup UNION {LinkTargets(st, s, u) : u \in w}

\* C4: with maxDepth = D an invocation fetches no item of depth > D, its
\* report has no record of depth > D, and a URL that no link path of length
\* <= D connects to the seed has no record in its report.
C4_DepthBound ==
  \A i \in Calls :
    /\ \A k \in FetchesOf(i) : fetchLog[k].depth <= maxDepth[i]
    /\ \A k \in DOMAIN report[i] :
         /\ report[i][k].depth <= maxDepth[i]
         /\ report[i][k].url \in Within(site, startUrl[i], maxDepth[i])

\* C5: a FetchSuccess step pushes only links whose hostname is the hostname
\* of the invocation's seed, and no invocation fetches or records a URL of
\* another hostname.
C5_DomainScope ==
  /\ [](\A i \in Calls :
          /\ \A k \in FetchesOf(i) :
               Parseable(fetchLog[k].url) =>
                 Hostname(fetchLog[k].url) = Hostname(startUrl[i])
          /\ \A k \in DOMAIN report[i] :
               Parseable(report[i][k].url) =>
                 Hostname(report[i][k].url) = Hostname(startUrl[i]))
  /\ [][\A i \in Calls :
          pc[i] = "fetching" /\ pc'[i] = "loop" =>
            \A k \in (Len(queue) + 1)..Len(queue') :
              Hostname(queue'[k].url) = Hostname(startUrl[i])]_vars

\* C6: in a returned report, a record of smaller depth comes before every
\* record of greater depth.
C6_DepthOrder ==
  \A i \in Calls :
    pc[i] = "done" =>
      \A j, k \in DOMAIN report[i] :
        report[i][j].depth < report[i][k].depth => j < k

\* the status codes with which axios.get resolves
SuccessStatus(s) == s = "200"

\* C7: when the fetch of a page fails, the step that handles the failure
\* appends exactly one record, with an error status, to the invocation's
\* report, pushes nothing onto the frontier and leaves the invocation in
\* its loop; the page has exactly one record from then on.
C7_FailureIsolation ==
  /\ [][\A i \in Calls :
          pc[i] = "fetching" /\ pc'[i] # "fetching" /\ Failed(cur[i].url) =>
            /\ pc'[i] = "loop"
            /\ Len(report'[i]) = Len(report[i]) + 1
            /\ SubSeq(report'[i], 1, Len(report[i])) = report[i]
            /\ report'[i][Len(report'[i])].url = cur[i].url
            /\ ~SuccessStatus(report'[i][Len(report'[i])].status)
            /\ queue' = queue
            /\ \A j \in Calls \ {i} : report'[j] = report[j]]_vars
  /\ [](\A i \in Calls : \A k \in FetchesOf(i) :
          Failed(fetchLog[k].url)
          /\ ~(pc[i] = "fetching" /\ cur[i].url = fetchLog[k].url) =>
            Cardinality(RecordsOf(i, fetchLog[k].url)) = 1)

\* a returned report in which the record of a page answered with 404 is
\* followed by the record of a later page
C7_Witness ==
  \E i \in Calls : \E k \in DOMAIN report[i] :
    /\ pc[i] = "done"
    /\ k < Len(report[i])
    /\ Failed(report[i][k].url)
    /\ report[i][k].status = "404"
    /\ report[i][k + 1].url # report[i][k].url

\* the links of a page when a malformed href counts as out of scope
LinksDroppingMalformed(hrefs, s, base) ==
  SelectSeq(Resolved(hrefs, s), LAMBDA h : Parseable(h) /\ InScope(h, base))

\* C8: the step that handles a fetched page keeps the invocation in its
\* loop and pushes every in-scope, not yet visited link of the page at
\* depth + 1, a malformed href being dropped like an out-of-scope one.
C8_MalformedLinkDropped ==
  [][\A i \in Calls :
       pc[i] = "fetching" /\ pc'[i] # "fetching" /\ ~Failed(cur[i].url) =>
         /\ pc'[i] = "loop"
         /\ queue' = Enqueue(queue,
                LinksDroppingMalformed(Response(site, cur[i].url).hrefs,
                                       startUrl[i], baseDomain[i]),
                visited, cur[i].depth)]_vars

\* the report of crawlSite(s, D) run alone in a fresh process: lines 14-51
\* on its own visited set v and frontier q
RECURSIVE AloneRun(_, _, _, _, _, _)
AloneRun(st, s, D, v, q, rep) ==
  IF q = <<>> THEN rep
  ELSE LET item == Head(q)
           res == Response(st, item.url)
           v2 == v \cup {item.url}
       IN  IF ShouldSkip(v, item, D) THEN AloneRun(st, s, D, v, Tail(q), rep)
           ELSE IF res.kind # "ok"
             THEN AloneRun(st, s, D, v2, Tail(q),
                           Append(rep, FailureRecord(item, res)))
           ELSE IF LinkThrows(res.hrefs, s)
             THEN AloneRun(st, s, D, v2, Tail(q),
                           rep \o << SuccessRecord(item, res),
                                     FailureRecord(item, InvalidUrlError) >>)
           ELSE AloneRun(st, s, D, v2,
                         Enqueue(Tail(q), Links(res.hrefs, s, Hostname(s)),
                                 v2, item.depth),
                         Append(rep, SuccessRecord(item, res)))

AloneReport(st, s, D) ==
  AloneRun(st, s, D, {}, <<[url |-> s, depth |-> 0]>>, <<>>)

\* C9: an invocation that was in progress together with another one returns
\* the report it would return if run alone.
C9_IsolatedCrawls ==
  \A i \in Calls :
    pc[i] = "done" /\ overlap[i] =>
      report[i] = AloneReport(site, startUrl[i], maxDepth[i])

\* C10: every call finds visited empty and leaves the frontier holding
\* exactly its seed, with an empty report; two invocations with the same
\* arguments that ran one after the other return the same report.
C10_FreshStart ==
  /\ [][\A i \in Calls :
          pc[i] = "idle" /\ pc'[i] # "idle" =>
            /\ visited = {}
            /\ queue' = <<[url |-> startUrl'[i], depth |-> 0]>>
            /\ report'[i] = <<>>]_vars
  /\ [](\A i, j \in Calls :
          /\ i < j /\ pc[i] = "done" /\ pc[j] = "done"
          /\ ~overlap[i] /\ ~overlap[j]
          /\ startUrl[i] = startUrl[j] /\ maxDepth[i] = maxDepth[j]
          => report[i] = report[j])

\* C11: a call with an unparseable startUrl rejects without starting a
\* fetch and leaves the frontier and the visited set as they were.
C11_BadSeedLeavesNoTrace ==
  [][\A i \in Calls :
       pc[i] = "idle" /\ pc'[i] = "failed" =>
         /\ queue' = queue
         /\ visited' = visited
         /\ fetchLog' = fetchLog]_vars

\* C12: when every started fetch settles, from some point on no invocation
\* is in its loop or awaiting a fetch: each one that entered the loop has
\* returned, the loop having no other exit; it returns only on an empty
\* frontier, and the returned report has a record for every URL it started
\* to fetch.
C12_Terminates ==
  /\ <>[](\A i \in Calls : pc[i] \in {"idle", "done", "failed"})
  /\ [][\A i \in Calls :
          /\ pc[i] \in {"loop", "fetching"} =>
               pc'[i] \in {"loop", "fetching", "done"}
          /\ pc[i] # "done" /\ pc'[i] = "done" => queue = <<>>]_vars
  /\ [](\A i \in Calls :
          pc[i] = "done" =>
            \A k \in FetchesOf(i) : RecordsOf(i, fetchLog[k].url) # {})

\* an invocation has returned after discarding an item and fetching two
\* pages, one of which failed
C12_Witness ==
  \E i \in Calls :
    /\ pc[i] = "done"
    /\ Cardinality(FetchesOf(i)) >= 2
    /\ \E k \in FetchesOf(i) : Failed(fetchLog[k].url)
    /\ \E e \in skipLog : e.call = i

\* C13: with maxDepth = 0 a returned report consists of one record, that
\* of the seed at depth 0.
C13_DepthZeroSeedOnly ==
  \A i \in Calls :
    pc[i] = "done" /\ maxDepth[i] = 0 =>
      /\ Len(report[i]) = 1
      /\ report[i][1].url = startUrl[i]
      /\ report[i][1].depth = 0

\* C14: the step that handles a rejected GET appends a record of exactly
\* the fields url, status and depth, whose status is the status code of the
\* response when there is one and 'Erro' when there is none; the record a
\* resolved GET appends first carries the status code of the response and
\* the depth of the dequeued item.
C14_RecordStatus ==
  [][\A i \in Calls :
       pc[i] = "fetching" /\ pc'[i] # "fetching" =>
         LET res == Response(site, cur[i].url)
             rec == report'[i][Len(report[i]) + 1]
         IN  /\ Len(report'[i]) > Len(report[i])
             /\ rec.url = cur[i].url
             /\ rec.depth = cur[i].depth
             /\ res.kind = "ok" => rec.status = res.status
             /\ res.kind = "http" =>
                  rec.status = res.status /\ DOMAIN rec = {"url", "status", "depth"}
             /\ res.kind = "net" =>
                  rec.status = "Erro" /\ DOMAIN rec = {"url", "status", "depth"}]_vars

\* a report holds the record of a 404 answer, the record of a transport
\* failure and the record of a fetched page
C14_Witness ==
  \E i \in Calls : \E j, k, l \in DOMAIN report[i] :
    /\ report[i][j].status = "404" /\ Response(site, report[i][j].url).kind = "http"
    /\ report[i][k].status = "Erro" /\ Response(site, report[i][k].url).kind = "net"
    /\ report[i][l].status = "200" /\ report[i][l].depth = 0

\* the URL strings at distance <= d from seed s over the in-scope links of
\* the pages that answer 2xx, a malformed href counting as out of scope
RECURSIVE ScopeWithin(_, _, _)
ScopeWithin(st, s, d) ==
  IF d = 0 THEN {s}
  ELSE LET w == ScopeWithin(st, s, d - 1)
           out(u) == IF Response(st, u).kind = "ok"
                       THEN LinksDroppingMalformed(Response(st, u).hrefs, s,
                                                   Hostname(s))
                       ELSE <<>>
       IN  w \cup UNION {{out(u)[k] : k \in 1..Len(out(u))} : u \in w}

\* the shortest such distance of u, for u within distance D
Distance(st, s, u, D) ==
  CHOOSE d \in 0..D :
    u \in ScopeWithin(st, s, d) /\ \A e \in 0..(d - 1) : u \notin ScopeWithin(st, s, e)

\* C15: the report returned by the only crawl of a process has a record for
\* exactly the URLs within link distance maxDepth of the seed, each at the
\* depth that is its distance.
C15_ShortestDistance ==
  \A i \in Calls :
    pc[i] = "done" /\ (\A j \in Calls \ {i} : pc[j] = "idle") =>
      /\ {report[i][k].url : k \in DOMAIN report[i]}
           = ScopeWithin(site, startUrl[i], maxDepth[i])
      /\ \A k \in DOMAIN report[i] :
           report[i][k].depth
             = Distance(site, startUrl[i], report[i][k].url, maxDepth[i])

\* C16: a URL is in visited from the step that starts its fetch, which is
\* the step that tested it, and no two outstanding fetches are of the same
\* URL string, whatever the interleaving of the invocations.
C16_NoConcurrentSameFetch ==
  /\ [](\A i \in Calls :
          pc[i] = "fetching" =>
            /\ cur[i].url \in visited
            /\ \A j \in Calls \ {i} :
                 pc[j] = "fetching" => cur[j].url # cur[i].url)
  /\ [][\A i \in Calls :
          pc[i] # "fetching" /\ pc'[i] = "fetching" =>
            /\ pc[i] = "loop" /\ running = i
            /\ cur'[i].url \notin visited
            /\ cur'[i].url \in visited']_vars

\* two fetches are outstanding, and the invocation of one has meanwhile
\* dequeued and discarded the URL the other is fetching
C16_Witness ==
  \E i, j \in Calls :
    /\ i # j
    /\ pc[i] = "fetching" /\ pc[j] = "fetching"
    /\ \E e \in skipLog :
         e.call = j /\ e.url = cur[i].url /\ e.depth <= maxDepth[j]

\* the position in fetchLog of the fetch of u by invocation i
FetchIndex(i, u) == CHOOSE k \in FetchesOf(i) : fetchLog[k].url = u

\* C17: a step only appends to a report, and the records of a report are in
\* the order in which the invocation dequeued their URLs and marked them
\* visited.
C17_VisitOrder ==
  /\ [][\A i \in Calls :
          /\ Len(report'[i]) >= Len(report[i])
          /\ SubSeq(report'[i], 1, Len(report[i])) = report[i]]_vars
  /\ [](\A i \in Calls : \A j, k \in DOMAIN report[i] :
          /\ \E n \in FetchesOf(i) : fetchLog[n].url = report[i][j].url
          /\ j < k => FetchIndex(i, report[i][j].url)
                        <= FetchIndex(i, report[i][k].url))

\* a returned report with the records of three different URLs
C17_Witness ==
  \E i \in Calls :
    /\ pc[i] = "done"
    /\ Cardinality({report[i][k].url : k \in DOMAIN report[i]}) >= 3

\* C18: the step that handles a fetched page at depth d leaves the items of
\* the frontier in place and appends, in document order and at depth d + 1,
\* exactly the in-scope links of the page that are not in visited.
C18_FrontierExtension ==
  [][\A i \in Calls :
       pc[i] = "fetching" /\ pc'[i] # "fetching" /\ ~Failed(cur[i].url) =>
         LET all == Resolved(Response(site, cur[i].url).hrefs, startUrl[i])
             new == SelectSeq(all, LAMBDA h :
                      /\ Parseable(h)
                      /\ Hostname(h) = Hostname(startUrl[i])
                      /\ h \notin visited)
         IN  /\ Len(queue') = Len(queue) + Len(new)
             /\ SubSeq(queue', 1, Len(queue)) = queue
             /\ \A k \in 1..Len(new) :
                  /\ queue'[Len(queue) + k].url = new[k]
                  /\ queue'[Len(queue) + k].depth = cur[i].depth + 1]_vars

\* C19: no step removes a URL from visited, every URL with a record is in
\* visited, and a step that discards the dequeued item changes neither
\* visited nor any report.
C19_VisitedGrows ==
  /\ [][visited \subseteq visited']_vars
  /\ [](\A i \in Calls : \A k \in DOMAIN report[i] :
          report[i][k].url \in visited)
  /\ [][queue # <<>> /\ queue' = Tail(queue) /\ fetchLog' = fetchLog =>
          visited' = visited /\ report' = report]_vars

\* an item beyond the depth bound and an item already visited have been
\* discarded by an invocation that has records; the former is not visited
C19_Witness ==
  \E e, f \in skipLog :
    /\ e.call = f.call
    /\ e.depth > maxDepth[e.call] /\ e.url \notin visited
    /\ f.depth <= maxDepth[f.call] /\ f.url \in visited
    /\ report[e.call] # <<>>
====
